---- MODULE Spec2Model ----
(***************************************************************************)
(* Model of the apartment price checker: the SMS script (main.py) and the  *)
(* email script (emailNotifications.py), each run by an external trigger,  *)
(* sharing one working directory that holds their state files.             *)
(*                                                                         *)
(* Numbers.  Python floats are modelled as whole numbers of TENTHS, so     *)
(* 2671.0 is 26710 and a threshold of 1.5 is 15.  Text (page text, file    *)
(* content) is a sequence of one-character strings.                        *)
(***************************************************************************)
EXTENDS Integers, Sequences, FiniteSets, TLC

\* ---------------------------------------------------------------- bounds
\* Largest plain "$n" quote offered by the fetched pages.
MaxPrice == 2

\* ------------------------------------------------------------- constants
\* Python's None, and the failure of a parse or of an extraction (raise).
None == -1
\* os.getenv("PRICE_THRESHOLD", "999999"), in tenths
DefaultThreshold == 9999990

Channels == {"sms", "email"}

\* --------------------------------------------------------------- state
VARIABLES
    fs,             \* path -> file
    env,            \* the .env configuration
    pc,             \* channel -> position of its run
    current_price,  \* channel -> local of main()
    last_price,     \* channel -> local of main()
    exit,           \* channel -> how the process ended
    diag,           \* channel -> a diagnostic was printed in this run
    fetched,        \* channel -> requests.get was called in this run
    attempted,      \* channel -> the send function was called in this run
    sent,           \* channel -> the send function returned normally
    written,        \* channel -> set_last_notified_price ran in this run
    pre,            \* channel -> its state file when the run started
    prevFail,       \* channel -> price of the previous run if its send failed
    own             \* channel -> its file as its own runs left it

vars == <<fs, env, pc, current_price, last_price, exit, diag, fetched,
          attempted, sent, written, pre, prevFail, own>>

\* ------------------------------------------------------------------ text
DigitChars == <<"0", "1", "2", "3", "4", "5", "6", "7", "8", "9">>

IsDigit(c) == \E d \in 1..10 : DigitChars[d] = c

DigitVal(c) == (CHOOSE d \in 1..10 : DigitChars[d] = c) - 1

IsSpace(c) == c \in {" ", "\n"}

RECURSIVE IntToStr(_)
IntToStr(n) ==
    IF n < 10 THEN <<DigitChars[n + 1]>>
    ELSE IntToStr(n \div 10) \o <<DigitChars[(n % 10) + 1]>>

RECURSIVE StrToInt(_)
StrToInt(s) ==
    IF s = <<>> THEN 0
    ELSE StrToInt(SubSeq(s, 1, Len(s) - 1)) * 10 + DigitVal(s[Len(s)])

AllDigits(s) == \A i \in 1..Len(s) : IsDigit(s[i])

\* str.strip(): drop leading and trailing whitespace
RECURSIVE strip(_)
strip(s) ==
    IF s = <<>> THEN s
    ELSE IF IsSpace(s[1]) THEN strip(Tail(s))
    ELSE IF IsSpace(s[Len(s)]) THEN strip(SubSeq(s, 1, Len(s) - 1))
    ELSE s

\* str.replace(",", "")
RECURSIVE RemoveCommas(_)
RemoveCommas(s) ==
    IF s = <<>> THEN s
    ELSE IF s[1] = "," THEN RemoveCommas(Tail(s))
    ELSE <<s[1]>> \o RemoveCommas(Tail(s))

\* str(price) of a float: the shortest repr, "<whole>.<tenth>" for the
\* values of this model ("2671.0", "1.5")
str(v) == IntToStr(v \div 10) \o <<".">> \o <<DigitChars[(v % 10) + 1]>>

\* float(content): digits, optionally a point and at most one fractional
\* digit (the literals the content set of this model contains); anything
\* else raises ValueError (None).
DotPos(s) == IF \E i \in 1..Len(s) : s[i] = "."
             THEN CHOOSE i \in 1..Len(s) : s[i] = "." /\ \A j \in 1..(i - 1) : s[j] # "."
             ELSE 0

float(s) ==
    LET d == DotPos(s)
        ip == IF d = 0 THEN s ELSE SubSeq(s, 1, d - 1)
        fp == IF d = 0 THEN <<>> ELSE SubSeq(s, d + 1, Len(s))
    IN  IF /\ AllDigits(ip) /\ AllDigits(fp)
           /\ Len(ip) + Len(fp) >= 1
           /\ Len(fp) <= 1
        THEN StrToInt(ip) * 10 + (IF fp = <<>> THEN 0 ELSE DigitVal(fp[1]))
        ELSE None

\* ----------------------------------------------------- price extraction
\* number of digits at the front of s, at most k
RECURSIVE DigitRun(_, _)
DigitRun(s, k) ==
    IF k = 0 \/ s = <<>> \/ ~IsDigit(s[1]) THEN 0
    ELSE 1 + DigitRun(Tail(s), k - 1)

\* length of the longest prefix of s of the form (,[0-9]{3})*
RECURSIVE GroupRun(_)
GroupRun(s) ==
    IF Len(s) >= 4 /\ s[1] = "," /\ DigitRun(Tail(s), 3) = 3
    THEN 4 + GroupRun(SubSeq(s, 5, Len(s)))
    ELSE 0

RECURSIVE SkipSpace(_)
SkipSpace(s) == IF s # <<>> /\ IsSpace(s[1]) THEN SkipSpace(Tail(s)) ELSE s

\* re.match of \$\s*([0-9]{1,3}(?:,[0-9]{3})*) at the front of s:
\* group(1), or <<>> when there is no match
MatchHere(s) ==
    IF s = <<>> \/ s[1] # "$" THEN <<>>
    ELSE LET r == SkipSpace(Tail(s))
             n == DigitRun(r, 3)
         IN  IF n = 0 THEN <<>>
             ELSE SubSeq(r, 1, n + GroupRun(SubSeq(r, n + 1, Len(r))))

\* re.search: the leftmost match
RECURSIVE re_search(_)
re_search(s) ==
    IF s = <<>> THEN <<>>
    ELSE IF MatchHere(s) # <<>> THEN MatchHere(s)
    ELSE re_search(Tail(s))

\* float(match.group(1).replace(",", "")), in tenths
PriceOfMatch(m) == float(RemoveCommas(m))

\* A fetched page: whether the HTTP request succeeded, whether the page
\* holds the span the email script selects, and the visible text (of the
\* span when there is one).
PageTexts ==
    { <<"$">> \o IntToStr(n) : n \in 0..MaxPrice }
    \cup { <<"$", " ", "1">>,
           <<"R", "e", "n", "t", " ", "$", "1", ",", "0", "0", "0">>,
           <<"$", "x", " ", "$", "2">>,
           <<"1">>, <<"$">>, <<" ">>, <<>> }

Pages == [ok : BOOLEAN, span : BOOLEAN, text : PageTexts]

\* main.py get_current_price: regex over the whole page text
Sms_get_current_price(page) ==
    IF ~page.ok THEN None
    ELSE LET m == re_search(strip(page.text))
         IN  IF m = <<>> THEN None ELSE PriceOfMatch(m)

\* emailNotifications.py get_current_price (after the URL check): the
\* selected span's text
Email_get_current_price(page) ==
    IF ~page.ok THEN None
    ELSE IF ~page.span \/ strip(page.text) = <<>> THEN None
    ELSE LET m == re_search(strip(page.text))
         IN  IF m = <<>> THEN None ELSE PriceOfMatch(m)

\* -------------------------------------------------------- persisted state
Paths == {"last_notified_price.txt", "last_notified_price_email.txt"}

Sms_LAST_PRICE_FILE == "last_notified_price.txt"

\* the email script keeping the SMS script's file name
Email_LAST_PRICE_FILE_Shared == "last_notified_price.txt"

Email_LAST_PRICE_FILE == "last_notified_price_email.txt"

LAST_PRICE_FILE(ch) == IF ch = "sms" THEN Sms_LAST_PRICE_FILE ELSE Email_LAST_PRICE_FILE

NoFile == [exists |-> FALSE, text |-> <<>>]

File(t) == [exists |-> TRUE, text |-> t]

\* main.py get_last_notified_price: 0 when absent or unparseable
Sms_get_last_notified_price(f) ==
    IF ~f.exists THEN 0
    ELSE IF float(strip(f.text)) = None THEN 0
    ELSE float(strip(f.text))

\* emailNotifications.py get_last_notified_price: None when absent or
\* unparseable
Email_get_last_notified_price(f) ==
    IF ~f.exists THEN None
    ELSE float(strip(f.text))

\* the wrong variable written
set_last_notified_price_Threshold(price) == File(str(env.PRICE_THRESHOLD))

\* set_last_notified_price: LAST_PRICE_FILE.write_text(str(price))
set_last_notified_price(price) == File(str(price))

\* Contents the state files may hold before the first run.
FileContents ==
    { NoFile, File(<<>>), File(<<"x">>), File(<<"1", "\n">>) }
    \cup { File(str(10 * n)) : n \in 0..MaxPrice }

\* PRICE_THRESHOLD values, in tenths
Thresholds == {0, 15, 10 * MaxPrice, DefaultThreshold}

Envs == [APARTMENT_URL : BOOLEAN, TWILIO : BOOLEAN, EMAIL : BOOLEAN,
         PRICE_THRESHOLD : Thresholds]

Init ==
    /\ fs \in [Paths -> FileContents]
    /\ env \in Envs
    /\ pc = [c \in Channels |-> "idle"]
    /\ current_price = [c \in Channels |-> None]
    /\ last_price = [c \in Channels |-> None]
    /\ exit = [c \in Channels |-> "running"]
    /\ diag = [c \in Channels |-> FALSE]
    /\ fetched = [c \in Channels |-> FALSE]
    /\ attempted = [c \in Channels |-> FALSE]
    /\ sent = [c \in Channels |-> FALSE]
    /\ written = [c \in Channels |-> FALSE]
    /\ pre = [c \in Channels |-> fs[LAST_PRICE_FILE(c)]]
    /\ prevFail = [c \in Channels |-> None]
    /\ own = [c \in Channels |-> fs[LAST_PRICE_FILE(c)]]

\* the process ends: status is "zero", "SystemExit" or "uncaught"
End(ch, status, printed) ==
    /\ pc' = [pc EXCEPT ![ch] = "exited"]
    /\ exit' = [exit EXCEPT ![ch] = status]
    /\ diag' = [diag EXCEPT ![ch] = printed]

\* a new process starts
Begin(ch) ==
    /\ pc[ch] = "idle"
    /\ current_price' = [current_price EXCEPT ![ch] = None]
    /\ last_price' = [last_price EXCEPT ![ch] = None]
    /\ fetched' = [fetched EXCEPT ![ch] = FALSE]
    /\ attempted' = [attempted EXCEPT ![ch] = FALSE]
    /\ sent' = [sent EXCEPT ![ch] = FALSE]
    /\ written' = [written EXCEPT ![ch] = FALSE]
    /\ pre' = [pre EXCEPT ![ch] = fs[LAST_PRICE_FILE(ch)]]
    /\ UNCHANGED <<fs, env, prevFail, own>>

\* ------------------------------------------------------------- main.py
\* main(), lines 75-78: the configuration check
SmsConfigOk == env.APARTMENT_URL /\ env.TWILIO

SmsStart ==
    /\ Begin("sms")
    /\ IF SmsConfigOk
       THEN /\ pc' = [pc EXCEPT !["sms"] = "fetch"]
            /\ exit' = [exit EXCEPT !["sms"] = "running"]
            /\ diag' = [diag EXCEPT !["sms"] = FALSE]
       ELSE End("sms", "SystemExit", TRUE)

\* main(), lines 80-87
SmsFetch ==
    /\ pc["sms"] = "fetch"
    /\ \E page \in Pages :
         LET r == Sms_get_current_price(page)
         IN  IF r = None
             THEN /\ End("sms", "zero", TRUE)
                  /\ UNCHANGED current_price
             ELSE /\ current_price' = [current_price EXCEPT !["sms"] = r]
                  /\ pc' = [pc EXCEPT !["sms"] = "decide"]
                  /\ UNCHANGED <<exit, diag>>
    /\ fetched' = [fetched EXCEPT !["sms"] = TRUE]
    /\ UNCHANGED <<fs, env, last_price, attempted, sent, written, pre, prevFail, own>>

\* main(), line 98: the condition under which no SMS is sent
SmsSkip(price, last) == last # 0 /\ price >= last

\* the comparison reversed
SmsAboveThreshold_Reversed(price) == price < env.PRICE_THRESHOLD

\* main(), line 89
SmsAboveThreshold(price) == price > env.PRICE_THRESHOLD

\* main(), lines 89-100
SmsDecide ==
    /\ pc["sms"] = "decide"
    /\ IF SmsAboveThreshold(current_price["sms"])
       THEN /\ End("sms", "zero", FALSE)
            /\ UNCHANGED last_price
       ELSE LET last == Sms_get_last_notified_price(fs[LAST_PRICE_FILE("sms")])
            IN  /\ last_price' = [last_price EXCEPT !["sms"] = last]
                /\ IF SmsSkip(current_price["sms"], last)
                   THEN End("sms", "zero", FALSE)
                   ELSE /\ pc' = [pc EXCEPT !["sms"] = "send"]
                        /\ UNCHANGED <<exit, diag>>
    /\ UNCHANGED <<fs, env, current_price, fetched, attempted, sent, written,
                   pre, prevFail, own>>

\* how a failed send_sms leaves main(): nothing catches the exception
SmsSendFailure == "uncaught"

\* the price persisted before the send is known to have succeeded
SmsFileAfterFailedSend_WriteFirst(f, price) == set_last_notified_price(price)

\* main(), lines 109-110: the state file after send_sms raised; line 110
\* is not reached
SmsFileAfterFailedSend(f, price) == f

\* main(), lines 102-110
SmsSend ==
    /\ pc["sms"] = "send"
    /\ attempted' = [attempted EXCEPT !["sms"] = TRUE]
    /\ \E ok \in BOOLEAN :
         IF ok
         THEN /\ fs' = [fs EXCEPT ![LAST_PRICE_FILE("sms")] =
                                     set_last_notified_price(current_price["sms"])]
              /\ own' = [own EXCEPT !["sms"] = set_last_notified_price(current_price["sms"])]
              /\ sent' = [sent EXCEPT !["sms"] = TRUE]
              /\ written' = [written EXCEPT !["sms"] = TRUE]
              /\ End("sms", "zero", FALSE)
         ELSE /\ fs' = [fs EXCEPT ![LAST_PRICE_FILE("sms")] =
                                     SmsFileAfterFailedSend(@, current_price["sms"])]
              /\ own' = [own EXCEPT !["sms"] =
                                     SmsFileAfterFailedSend(@, current_price["sms"])]
              /\ End("sms", SmsSendFailure, TRUE)
              /\ UNCHANGED <<sent, written>>
    /\ UNCHANGED <<env, current_price, last_price, fetched, pre, prevFail>>

\* ------------------------------------------------- emailNotifications.py
\* main() has no configuration stage
EmailStart ==
    /\ Begin("email")
    /\ pc' = [pc EXCEPT !["email"] = "fetch"]
    /\ exit' = [exit EXCEPT !["email"] = "running"]
    /\ diag' = [diag EXCEPT !["email"] = FALSE]

\* main(), lines 91-97, with get_current_price's URL check (33-34)
EmailFetch ==
    /\ pc["email"] = "fetch"
    /\ IF ~env.APARTMENT_URL
       THEN /\ End("email", "zero", TRUE)
            /\ UNCHANGED <<current_price, fetched>>
       ELSE /\ fetched' = [fetched EXCEPT !["email"] = TRUE]
            /\ \E page \in Pages :
                 LET r == Email_get_current_price(page)
                 IN  IF r = None
                     THEN /\ End("email", "zero", TRUE)
                          /\ UNCHANGED current_price
                     ELSE /\ current_price' = [current_price EXCEPT !["email"] = r]
                          /\ pc' = [pc EXCEPT !["email"] = "decide"]
                          /\ UNCHANGED <<exit, diag>>
    /\ UNCHANGED <<fs, env, last_price, attempted, sent, written, pre, prevFail, own>>

\* the comparison reversed: a lower price is skipped
EmailSkip_Reversed(price, last) == last # None /\ price <= last

\* main(), line 108: the condition under which no email is sent
EmailSkip(price, last) == last # None /\ price >= last

\* main(), line 99
EmailAboveThreshold(price) == price > env.PRICE_THRESHOLD

\* main(), lines 99-113
EmailDecide ==
    /\ pc["email"] = "decide"
    /\ IF EmailAboveThreshold(current_price["email"])
       THEN /\ End("email", "zero", FALSE)
            /\ UNCHANGED last_price
       ELSE LET last == Email_get_last_notified_price(fs[LAST_PRICE_FILE("email")])
            IN  /\ last_price' = [last_price EXCEPT !["email"] = last]
                /\ IF EmailSkip(current_price["email"], last)
                   THEN End("email", "zero", FALSE)
                   ELSE /\ pc' = [pc EXCEPT !["email"] = "send"]
                        /\ UNCHANGED <<exit, diag>>
    /\ UNCHANGED <<fs, env, current_price, fetched, attempted, sent, written,
                   pre, prevFail, own>>

\* main(), lines 115-129, with send_email's settings check (62-63)
EmailSend ==
    /\ pc["email"] = "send"
    /\ attempted' = [attempted EXCEPT !["email"] = TRUE]
    /\ \E ok \in BOOLEAN :
         IF ok /\ env.EMAIL
         THEN /\ fs' = [fs EXCEPT ![LAST_PRICE_FILE("email")] =
                                     set_last_notified_price(current_price["email"])]
              /\ own' = [own EXCEPT !["email"] = set_last_notified_price(current_price["email"])]
              /\ sent' = [sent EXCEPT !["email"] = TRUE]
              /\ written' = [written EXCEPT !["email"] = TRUE]
              /\ End("email", "zero", FALSE)
         ELSE /\ End("email", "zero", TRUE)
              /\ UNCHANGED <<fs, own, sent, written>>
    /\ UNCHANGED <<env, current_price, last_price, fetched, pre, prevFail>>

\* ------------------------------------------------------ between two runs
\* the process is gone; the external trigger may start the script again
Finish(ch) ==
    /\ pc[ch] = "exited"
    /\ pc' = [pc EXCEPT ![ch] = "idle"]
    /\ prevFail' = [prevFail EXCEPT ![ch] =
                      IF attempted[ch] /\ ~sent[ch] THEN current_price[ch] ELSE None]
    /\ UNCHANGED <<fs, env, current_price, last_price, exit, diag, fetched,
                   attempted, sent, written, pre, own>>

SmsFinish == Finish("sms")

EmailFinish == Finish("email")

Next ==
    \/ SmsStart
    \/ SmsFetch
    \/ SmsDecide
    \/ SmsSend
    \/ SmsFinish
    \/ EmailStart
    \/ EmailFetch
    \/ EmailDecide
    \/ EmailSend
    \/ EmailFinish

Spec == Init /\ [][Next]_vars

\* ================================================================ claims
\* the number a state file holds: None when absent or unparseable
Persisted(f) == IF f.exists THEN float(strip(f.text)) ELSE None

\* the file is as a successful notification of this program leaves it
WrittenByScript(f) == Persisted(f) # None /\ f = File(str(Persisted(f)))

Done(ch) == pc[ch] = "exited"

\* the run of ch is over and it extracted a price
Priced(ch) == Done(ch) /\ current_price[ch] # None

StateOf(ch) == fs[LAST_PRICE_FILE(ch)]

\* C1: a run whose extracted price is strictly above the threshold attempts
\* no notification and leaves the persisted state as it found it, whatever
\* that state holds.
C1_AboveThresholdSilent ==
    \A ch \in Channels :
        (Priced(ch) /\ current_price[ch] > env.PRICE_THRESHOLD)
            => (~attempted[ch] /\ ~written[ch] /\ StateOf(ch) = pre[ch])

C1_Witness ==
    /\ \A ch \in Channels : Priced(ch) /\ current_price[ch] > env.PRICE_THRESHOLD
    /\ Persisted(pre["sms"]) # None /\ Persisted(pre["sms"]) > current_price["sms"]
    /\ Persisted(pre["email"]) = None

\* C2: with a last-notified price persisted by an earlier successful
\* notification, a run whose price is greater than or equal to it sends
\* nothing and leaves the state unchanged, a persisted 0 included.
C2_NoRepeat ==
    \A ch \in Channels :
        (Priced(ch) /\ WrittenByScript(pre[ch]) /\ current_price[ch] >= Persisted(pre[ch]))
            => (~attempted[ch] /\ StateOf(ch) = pre[ch])

\* C3: a run with price <= threshold, and either no persisted price or a
\* price strictly below the persisted one, attempts a notification, and
\* when the send succeeds the persisted price after the run is the price.
C3_NotifyOnDrop ==
    \A ch \in Channels :
        (/\ Priced(ch)
         /\ current_price[ch] <= env.PRICE_THRESHOLD
         /\ \/ ~pre[ch].exists
            \/ Persisted(pre[ch]) # None /\ current_price[ch] < Persisted(pre[ch]))
            => /\ attempted[ch]
               /\ sent[ch] => Persisted(StateOf(ch)) = current_price[ch]

C3_Witness ==
    /\ \A ch \in Channels : Priced(ch) /\ sent[ch]
    /\ current_price["sms"] = env.PRICE_THRESHOLD
    /\ ~pre["sms"].exists
    /\ Persisted(pre["email"]) # None /\ current_price["email"] < Persisted(pre["email"])

\* C4: the persisted price changes only in a run whose notification was
\* sent, and then to exactly the current price; in every other outcome the
\* state file is as the run found it.
C4_PersistOnlyOnSuccess ==
    \A ch \in Channels :
        /\ written[ch] => sent[ch]
        /\ IF sent[ch]
           THEN StateOf(ch) = File(str(current_price[ch]))
           ELSE StateOf(ch) = pre[ch]

C4_Witness ==
    /\ Done("sms") /\ attempted["sms"] /\ ~sent["sms"] /\ pre["sms"].exists
    /\ Done("email") /\ sent["email"] /\ StateOf("email") # pre["email"]

\* a recoverable failure happened in the run of ch: the fetch or the
\* extraction failed, or the notifier failed to send
RecoverableFailure(ch) ==
    \/ fetched[ch] /\ current_price[ch] = None
    \/ attempted[ch] /\ ~sent[ch]

\* C5: every recoverable failure ends the run with a printed diagnostic and
\* a zero exit.
C5_FailuresNonFatal ==
    \A ch \in Channels :
        (Done(ch) /\ RecoverableFailure(ch)) => (exit[ch] = "zero" /\ diag[ch])

\* a required setting of the script of ch is absent
ConfigMissing(ch) ==
    \/ ~env.APARTMENT_URL
    \/ ch = "sms" /\ ~env.TWILIO
    \/ ch = "email" /\ ~env.EMAIL

\* C6: with a required setting absent the run stops with a non-zero exit
\* before any fetch, notification attempt or state write.
C6_ConfigFatal ==
    \A ch \in Channels :
        (Done(ch) /\ ConfigMissing(ch))
            => (exit[ch] = "SystemExit" /\ ~fetched[ch] /\ ~attempted[ch] /\ ~written[ch])

\* C7: after a run whose notification attempt failed, the next run that
\* extracts the same or a lower price attempts the notification again, and
\* a send that succeeds leaves that price persisted.
C7_RetryAfterFailure ==
    \A ch \in Channels :
        (Priced(ch) /\ prevFail[ch] # None /\ current_price[ch] <= prevFail[ch])
            => /\ attempted[ch]
               /\ sent[ch] => WrittenByScript(StateOf(ch))
                                 /\ Persisted(StateOf(ch)) = current_price[ch]

C7_Witness ==
    /\ \A ch \in Channels :
          Priced(ch) /\ prevFail[ch] # None /\ current_price[ch] <= prevFail[ch] /\ sent[ch]
    /\ current_price["sms"] = prevFail["sms"]
    /\ current_price["email"] < prevFail["email"]

\* C8: the two scripts keep their state in distinct files; whatever the
\* interleaving, the file of a channel is as that channel's own runs left
\* it, and the last price a run decides on is read from it.
C8_ChannelsIndependent ==
    /\ LAST_PRICE_FILE("sms") # LAST_PRICE_FILE("email")
    /\ \A ch \in Channels : StateOf(ch) = own[ch]
    /\ pc["sms"] = "send" => last_price["sms"] = Sms_get_last_notified_price(own["sms"])
    /\ pc["email"] = "send" => last_price["email"] = Email_get_last_notified_price(own["email"])

C8_Witness ==
    /\ sent["sms"] /\ pc["email"] = "send"
    /\ StateOf("sms") # pre["sms"]
    /\ Persisted(StateOf("email")) # None
    /\ Persisted(StateOf("sms")) < current_price["email"]
    /\ current_price["email"] < Persisted(StateOf("email"))

\* C9: on the same threshold, price and state-file content the two scripts
\* reach the same decision and, when both sends succeed, the same persisted
\* value.
C9_SameDecision ==
    (/\ Priced("sms") /\ Priced("email")
     /\ current_price["sms"] = current_price["email"]
     /\ pre["sms"] = pre["email"])
        => /\ attempted["sms"] = attempted["email"]
           /\ (sent["sms"] /\ sent["email"]) => StateOf("sms") = StateOf("email")

\* C10: every write of a script stores a price strictly lower than the one
\* it replaces and no greater than the threshold.
C10_StrictlyDecreasing ==
    \A ch \in Channels :
        (written[ch] /\ (~pre[ch].exists \/ WrittenByScript(pre[ch])))
            => /\ Persisted(StateOf(ch)) <= env.PRICE_THRESHOLD
               /\ pre[ch].exists => Persisted(StateOf(ch)) < Persisted(pre[ch])

====
